---- MODULE Spec2Model ----
(***************************************************************************)
(* A model of "Basic Concepts/crossentropy.py" and "Basic Concepts/        *)
(* softmax.py": the two functions cross_entropy(Y, P) and softmax(L), the  *)
(* module-level lists they are called on, and the numpy float64            *)
(* operations they are made of.                                            *)
(*                                                                         *)
(* Numbers.  A Python value is a record [kind, v]:                         *)
(*   kind = "int"   a Python int, v its value;                            *)
(*   kind = "fin"   a finite float64, v its value in units of 1/Scale,     *)
(*                  every operation rounding to the nearest unit;          *)
(*   kind = "inf"   an infinite float64, v = 1 or -1 its sign;             *)
(*   kind = "nan"   a float64 not-a-number;                                *)
(*   kind = "none"  None (an unbound result);                              *)
(*   kind = "ref"   a reference to the heap object at address v.           *)
(* The float64 special values and the rules that produce them (log 0,      *)
(* 0 * inf, inf - inf, inf / inf, 0 / 0, the overflow and underflow of     *)
(* exp) are those of IEEE 754 as numpy applies them with its default error *)
(* settings (a warning, never an exception).  The sign of zero is not      *)
(* kept.                                                                   *)
(***************************************************************************)
EXTENDS Integers, Sequences, FiniteSets

\* ------------------------------------------------------------------ bounds

\* Longest argument list drawn for a call.
MaxLen == 3

\* Logits are drawn from 0..MaxLogit and from {-BigLogit, BigLogit}.
MaxLogit == 2

\* A logit magnitude beyond the float64 range of exp.
BigLogit == 1000

\* Number of heap cells.
HeapSize == 6

\* Calls made in a session, and the longest argument list drawn for one.
MaxCalls == 3

SessionLen == 2

\* ------------------------------------------------------------------- state

VARIABLES
  heap,                  \* address -> object: [type, items]
  cross_entropy_answer,  \* crossentropy.py: module-level result
  ans,                   \* softmax.py: module-level result
  printed,               \* the line last written to standard output
  pc,                    \* the statement about to run
  Y, P,                  \* cross_entropy's parameters
  L, expl, sumExpl, result, it, i,  \* softmax's parameter and locals
  saved,                 \* the heap as it was when the running call was made
  calls_left,            \* calls the top level may still make
  log                    \* the calls that have ended, in order: [fn, in, out], in the
                         \* argument lists' elements and out the sequence of
                         \* values returned (one for cross_entropy)

vars == <<heap, cross_entropy_answer, ans, printed, pc, Y, P,
          L, expl, sumExpl, result, it, i, saved, calls_left, log>>

\* ------------------------------------------------------------- float64

\* Units per 1.0 of a finite float.
Scale == 10^4

NaN == [kind |-> "nan", v |-> 0]

PInf == [kind |-> "inf", v |-> 1]

NInf == [kind |-> "inf", v |-> -1]

Fin(x) == [kind |-> "fin", v |-> x]

PyInt(n) == [kind |-> "int", v |-> n]

NoneVal == [kind |-> "none", v |-> 0]

Ref(a) == [kind |-> "ref", v |-> a]

Abs(x) == IF x < 0 THEN -x ELSE x

Sgn(x) == IF x < 0 THEN -1 ELSE IF x > 0 THEN 1 ELSE 0

IsFinite(x) == x.kind = "fin"

\* float(x) of one element: a Python int becomes the float of the same value.
ToFloat64(x) == IF x.kind = "int" THEN Fin(x.v * Scale) ELSE x

\* -x
FNeg(x) ==
  CASE x.kind = "nan" -> NaN
    [] x.kind = "inf" -> [kind |-> "inf", v |-> -x.v]
    [] OTHER -> Fin(-x.v)

\* x + y
FAdd(x, y) ==
  CASE x.kind = "nan" \/ y.kind = "nan" -> NaN
    [] x.kind = "inf" /\ y.kind = "inf" -> IF x.v = y.v THEN x ELSE NaN
    [] x.kind = "inf" -> x
    [] y.kind = "inf" -> y
    [] OTHER -> Fin(x.v + y.v)

\* x - y
FSub(x, y) == FAdd(x, FNeg(y))

\* n / d rounded to the nearest integer, n >= 0, d > 0.
RoundDiv(n, d) == (2 * n + d) \div (2 * d)

\* A product in which zero absorbs everything, infinity included.
FMulZeroAbsorbs(x, y) ==
  CASE x.kind = "nan" \/ y.kind = "nan" -> NaN
    [] (x.kind = "fin" /\ x.v = 0) \/ (y.kind = "fin" /\ y.v = 0) -> Fin(0)
    [] x.kind = "inf" \/ y.kind = "inf" ->
         [kind |-> "inf", v |-> Sgn(x.v) * Sgn(y.v)]
    [] OTHER -> Fin(Sgn(x.v) * Sgn(y.v) * RoundDiv(Abs(x.v) * Abs(y.v), Scale))

\* x * y
FMul(x, y) ==
  CASE x.kind = "nan" \/ y.kind = "nan" -> NaN
    [] x.kind = "inf" /\ y.kind = "inf" -> [kind |-> "inf", v |-> x.v * y.v]
    [] x.kind = "inf" -> IF y.v = 0 THEN NaN ELSE [kind |-> "inf", v |-> x.v * Sgn(y.v)]
    [] y.kind = "inf" -> IF x.v = 0 THEN NaN ELSE [kind |-> "inf", v |-> y.v * Sgn(x.v)]
    [] OTHER -> Fin(Sgn(x.v) * Sgn(y.v) * RoundDiv(Abs(x.v) * Abs(y.v), Scale))

RECURSIVE LongDiv(_, _, _)
\* The fraction r / b (0 <= r < b) in units of 1/m, m a power of ten, digit by
\* digit and rounded to the nearest unit.
LongDiv(r, b, m) ==
  IF m = 1 THEN (IF 2 * r >= b THEN 1 ELSE 0)
  ELSE ((r * 10) \div b) * (m \div 10) + LongDiv((r * 10) % b, b, m \div 10)

\* x / y
FDiv(x, y) ==
  CASE x.kind = "nan" \/ y.kind = "nan" -> NaN
    [] x.kind = "inf" /\ y.kind = "inf" -> NaN
    [] x.kind = "inf" -> [kind |-> "inf", v |-> IF y.v < 0 THEN -x.v ELSE x.v]
    [] y.kind = "inf" -> Fin(0)
    [] y.v = 0 -> IF x.v = 0 THEN NaN ELSE [kind |-> "inf", v |-> Sgn(x.v)]
    [] OTHER -> Fin(Sgn(x.v) * Sgn(y.v)
                    * ((Abs(x.v) \div Abs(y.v)) * Scale
                       + LongDiv(Abs(x.v) % Abs(y.v), Abs(y.v), Scale)))

\* ln(k/10) for k = 1..10, in units of 1/Scale.
LnTenths == <<-23026, -16094, -12040, -9163, -6931, -5108, -3567, -2231, -1054, 0>>

\* exp(k) for k = 0..8, in units of 1/Scale; ExpInts[k + 1] = exp(k).
ExpInts == <<10000, 27183, 73891, 200855, 545982, 1484132, 4034288, 10966332, 29809580>>

\* The least x, in units of 1/Scale, whose exp overflows float64 to inf.
ExpOverflow == 7097828

\* The greatest x, in units of 1/Scale, whose exp underflows float64 to 0.
ExpUnderflow == -7451333

\* log of one float64: log(0) = -inf and log of a negative number = nan.
FLog(x) ==
  CASE x.kind = "nan" -> NaN
    [] x.kind = "inf" -> IF x.v > 0 THEN PInf ELSE NaN
    [] x.v < 0 -> NaN
    [] x.v = 0 -> NInf
    [] OTHER -> Fin(LnTenths[x.v \div (Scale \div 10)])

\* exp of one float64: inf past the float64 range, 0 below it.
FExp(x) ==
  CASE x.kind = "nan" -> NaN
    [] x.kind = "inf" -> IF x.v > 0 THEN PInf ELSE Fin(0)
    [] x.v >= ExpOverflow -> PInf
    [] x.v <= ExpUnderflow -> Fin(0)
    [] OTHER -> Fin(ExpInts[x.v \div Scale + 1])

RECURSIVE SumTo(_, _)
\* A[1] + ... + A[n], added from the left; 0.0 for n = 0.
SumTo(A, n) == IF n = 0 THEN Fin(0) ELSE FAdd(SumTo(A, n - 1), A[n])

\* ---------------------------------------------------------------- numpy

\* np.float_(seq): a new float64 array holding float(x) of every element.
np_float_(items) == [k \in 1..Len(items) |-> ToFloat64(items[k])]

\* np.log(A), element by element.
np_log(A) == [k \in 1..Len(A) |-> FLog(A[k])]

\* np.exp(seq): the sequence converted to a float64 array, then exp of each.
np_exp(items) == [k \in 1..Len(items) |-> FExp(ToFloat64(items[k]))]

\* The complement forgotten: A itself.
OneMinusForgotten(A) == A

\* 1 - A: the Python int 1 as a float64, minus every element.
OneMinus(A) == [k \in 1..Len(A) |-> FSub(ToFloat64(PyInt(1)), A[k])]

\* A sum that starts from the previous answer instead of from 0.0.
np_sum_carry(A) ==
  FAdd(IF cross_entropy_answer.kind = "none" THEN Fin(0) ELSE cross_entropy_answer,
       SumTo(A, Len(A)))

\* np.sum(A) of a one-dimensional float64 array.
np_sum(A) == SumTo(A, Len(A))

\* Lengths paired the way zip pairs them: the shorter one wins.
BroadcastLenZip(a, b) == IF a < b THEN a ELSE b

\* The length two one-dimensional shapes (a,) and (b,) broadcast to; -1 when
\* numpy refuses ("operands could not be broadcast together").
BroadcastLen(a, b) ==
  IF a = b THEN a ELSE IF a = 1 THEN b ELSE IF b = 1 THEN a ELSE -1

\* The element of A that index k of the broadcast result reads.
BroadcastAt(A, k) == IF Len(A) = 1 THEN A[1] ELSE A[k]

\* A * B, broadcast; defined when BroadcastLen(Len(A), Len(B)) >= 0.
ArrMul(A, B) ==
  [k \in 1..BroadcastLen(Len(A), Len(B)) |-> FMul(BroadcastAt(A, k), BroadcastAt(B, k))]

\* A + B, broadcast; defined when BroadcastLen(Len(A), Len(B)) >= 0.
ArrAdd(A, B) ==
  [k \in 1..BroadcastLen(Len(A), Len(B)) |-> FAdd(BroadcastAt(A, k), BroadcastAt(B, k))]

\* The exception a failed broadcast raises.
ValueError == [kind |-> "raise", v |-> 0]

\* Line 6 with np.log(P) in both terms.
ce_return_same_log(Yf, Pf) ==
  IF BroadcastLen(Len(Yf), Len(Pf)) < 0 THEN ValueError
  ELSE FNeg(np_sum(ArrAdd(ArrMul(Yf, np_log(Pf)),
                          ArrMul(OneMinus(Yf), np_log(Pf)))))

\* Line 6 without the leading minus.
ce_return_no_minus(Yf, Pf) ==
  IF BroadcastLen(Len(Yf), Len(Pf)) < 0 THEN ValueError
  ELSE np_sum(ArrAdd(ArrMul(Yf, np_log(Pf)),
                     ArrMul(OneMinus(Yf), np_log(OneMinus(Pf)))))

\* Line 6 of crossentropy.py on the two converted arrays: the value returned,
\* or ValueError when Y * np.log(P) cannot be broadcast.
ce_return(Yf, Pf) ==
  IF BroadcastLen(Len(Yf), Len(Pf)) < 0 THEN ValueError
  ELSE FNeg(np_sum(ArrAdd(ArrMul(Yf, np_log(Pf)),
                          ArrMul(OneMinus(Yf), np_log(OneMinus(Pf))))))

\* ------------------------------------------------------------ the heap

Addr == 1..HeapSize

FreeCell == [type |-> "free", items |-> <<>>]

PyList(items) == [type |-> "list", items |-> items]

NdArray(items) == [type |-> "ndarray", items |-> items]

\* The address a new object is given: the lowest free cell.
Alloc(h) == CHOOSE a \in Addr : h[a].type = "free" /\ \A b \in 1..(a - 1) : h[b].type # "free"

\* The heap with the objects at the addresses in dead released.
Free(h, dead) == [a \in Addr |-> IF a \in dead THEN FreeCell ELSE h[a]]

\* The heap with a new object obj at address a.
Store(h, a, obj) == [h EXCEPT ![a] = obj]

\* The module-level names bound to the argument lists: their addresses.
listy == 1

listp == 2

list1 == 3

\* The literals of the two scripts.
listy_literal == <<PyInt(1), PyInt(0), PyInt(1), PyInt(1)>>

listp_literal == <<Fin(4 * (Scale \div 10)), Fin(6 * (Scale \div 10)),
                   Fin(1 * (Scale \div 10)), Fin(5 * (Scale \div 10))>>

list1_literal == <<PyInt(5), PyInt(6), PyInt(7), PyInt(8)>>

\* ------------------------------------------------------------- the inputs

SeqsUpTo(S, n) == UNION {[1..k -> S] : k \in 0..n}

\* Labels: 0 and 1 as Python ints, and the soft label 0.5.
YVals == {PyInt(0), PyInt(1), Fin(Scale \div 2)}

\* Probabilities: exactly 0 and 1, and 0.4 and 0.6 inside (0,1).
PVals == {PyInt(0), Fin(4 * (Scale \div 10)), Fin(6 * (Scale \div 10)), PyInt(1)}

\* Logits: small ones, and two past the float64 range of exp on either side.
Logits == {PyInt(k) : k \in (0..MaxLogit) \cup {-BigLogit, BigLogit}}

\* The heap a script starts with: the three module-level lists.
InitHeap(yv, pv, lv) ==
  [a \in Addr |-> CASE a = listy -> PyList(yv)
                    [] a = listp -> PyList(pv)
                    [] a = list1 -> PyList(lv)
                    [] OTHER -> FreeCell]

\* The three lists: either script's are its literals, or are drawn from the
\* input sets with at most n elements.
InitLists(n) ==
  \/ \E lv \in {list1_literal} \cup SeqsUpTo(Logits, n) :
       heap = InitHeap(listy_literal, listp_literal, lv)
  \/ \E yv \in SeqsUpTo(YVals, n), pv \in SeqsUpTo(PVals, n) :
       heap = InitHeap(yv, pv, list1_literal)

\* Nothing has run yet.
InitFrame ==
  /\ cross_entropy_answer = NoneVal
  /\ ans = NoneVal
  /\ printed = NoneVal
  /\ pc = "main"
  /\ Y = NoneVal /\ P = NoneVal
  /\ L = NoneVal /\ expl = NoneVal /\ sumExpl = NoneVal
  /\ result = NoneVal /\ it = 0 /\ i = NoneVal
  /\ saved = heap
  /\ log = <<>>

\* One run of one script: its single call.
Init == InitLists(MaxLen) /\ InitFrame /\ calls_left = 1

\* A session that calls the two functions up to MaxCalls times, in any order.
InitSession == InitLists(SessionLen) /\ InitFrame /\ calls_left = MaxCalls

\* ---------------------------------------------------------- crossentropy.py

\* A conversion that overwrites its argument instead of building a new array.
np_float_inplace(h, src) == src

\* Where np.float_(x) puts its result when x is the object at src: in a new
\* array, which the assignment then binds to the local name.
np_float_addr(h, src) == Alloc(h)

\* Line 12: cross_entropy(listy, listp) is called.
call_cross_entropy ==
  /\ pc = "main"
  /\ calls_left > 0
  /\ calls_left' = calls_left - 1
  /\ pc' = "ce4"
  /\ Y' = Ref(listy)
  /\ P' = Ref(listp)
  /\ saved' = heap
  /\ UNCHANGED <<heap, cross_entropy_answer, ans, printed,
                 L, expl, sumExpl, result, it, i, log>>

\* Line 4: Y = np.float_(Y).
ce_line4 ==
  /\ pc = "ce4"
  /\ LET a == np_float_addr(heap, Y.v) IN
       /\ heap' = Store(heap, a, NdArray(np_float_(heap[Y.v].items)))
       /\ Y' = Ref(a)
  /\ pc' = "ce5"
  /\ UNCHANGED <<calls_left, cross_entropy_answer, ans, printed, P,
                 L, expl, sumExpl, result, it, i, saved, log>>

\* Line 5: P = np.float_(P).
ce_line5 ==
  /\ pc = "ce5"
  /\ LET a == np_float_addr(heap, P.v) IN
       /\ heap' = Store(heap, a, NdArray(np_float_(heap[P.v].items)))
       /\ P' = Ref(a)
  /\ pc' = "ce6"
  /\ UNCHANGED <<calls_left, cross_entropy_answer, ans, printed, Y,
                 L, expl, sumExpl, result, it, i, saved, log>>

\* Line 6, and line 12's assignment of what it returns.  A ValueError is not
\* caught anywhere: the script ends.
ce_line6 ==
  /\ pc = "ce6"
  /\ LET out == ce_return(heap[Y.v].items, heap[P.v].items) IN
       /\ log' = Append(log, [fn |-> "cross_entropy",
                               in |-> <<saved[listy].items, saved[listp].items>>,
                               out |-> <<out>>])
       /\ IF out = ValueError
            THEN pc' = "raised" /\ UNCHANGED cross_entropy_answer
            ELSE pc' = "ce13" /\ cross_entropy_answer' = out
  /\ heap' = Free(heap, {Y.v, P.v})
  /\ Y' = NoneVal
  /\ P' = NoneVal
  /\ UNCHANGED <<calls_left, ans, printed, L, expl, sumExpl, result, it, i, saved>>

\* Line 13: print(cross_entropy_answer).
print_cross_entropy ==
  /\ pc = "ce13"
  /\ printed' = cross_entropy_answer
  /\ pc' = "main"
  /\ UNCHANGED <<calls_left, heap, cross_entropy_answer, ans, Y, P,
                 L, expl, sumExpl, result, it, i, saved, log>>

\* -------------------------------------------------------------- softmax.py

\* Line 15: softmax(list1) is called.
call_softmax ==
  /\ pc = "main"
  /\ calls_left > 0
  /\ calls_left' = calls_left - 1
  /\ pc' = "sm8"
  /\ L' = Ref(list1)
  /\ saved' = heap
  /\ UNCHANGED <<heap, cross_entropy_answer, ans, printed, Y, P,
                 expl, sumExpl, result, it, i, log>>

\* Line 8: expl = np.exp(L).
sm_line8 ==
  /\ pc = "sm8"
  /\ LET a == Alloc(heap) IN
       /\ heap' = Store(heap, a, NdArray(np_exp(heap[L.v].items)))
       /\ expl' = Ref(a)
  /\ pc' = "sm9"
  /\ UNCHANGED <<calls_left, cross_entropy_answer, ans, printed, Y, P,
                 L, sumExpl, result, it, i, saved, log>>

\* Line 9: sumExpl = np.sum(expl).
sm_line9 ==
  /\ pc = "sm9"
  /\ sumExpl' = np_sum(heap[expl.v].items)
  /\ pc' = "sm10"
  /\ UNCHANGED <<calls_left, heap, cross_entropy_answer, ans, printed, Y, P,
                 L, expl, result, it, i, saved, log>>

\* Line 10: result = [].
sm_line10 ==
  /\ pc = "sm10"
  /\ LET a == Alloc(heap) IN
       /\ heap' = Store(heap, a, PyList(<<>>))
       /\ result' = Ref(a)
  /\ it' = 0
  /\ pc' = "sm11"
  /\ UNCHANGED <<calls_left, cross_entropy_answer, ans, printed, Y, P,
                 L, expl, sumExpl, i, saved, log>>

\* The list object after list.insert(0, x).
list_prepend(obj, x) == PyList(<<x>> \o obj.items)

\* The list object after list.append(x).
list_append(obj, x) == PyList(Append(obj.items, x))

\* Lines 11-12: the for statement takes the next element of expl, if any, and
\* the body appends i/sumExpl to result.
sm_line11 ==
  /\ pc = "sm11"
  /\ IF it < Len(heap[expl.v].items)
       THEN /\ it' = it + 1
            /\ i' = heap[expl.v].items[it + 1]
            /\ heap' = Store(heap, result.v,
                             list_append(heap[result.v], FDiv(i', sumExpl)))
            /\ pc' = "sm11"
       ELSE /\ pc' = "sm13"
            /\ UNCHANGED <<heap, it, i>>
  /\ UNCHANGED <<calls_left, cross_entropy_answer, ans, printed, Y, P,
                 L, expl, sumExpl, result, saved, log>>

\* Line 13, and line 15's assignment of what it returns: the frame's other
\* objects die, and so does the list ans named before.
sm_line13 ==
  /\ pc = "sm13"
  /\ ans' = result
  /\ log' = Append(log, [fn |-> "softmax",
                          in |-> <<saved[list1].items>>,
                          out |-> heap[result.v].items])
  /\ heap' = Free(heap, {expl.v} \cup (IF ans.kind = "ref" THEN {ans.v} ELSE {}))
  /\ L' = NoneVal /\ expl' = NoneVal /\ sumExpl' = NoneVal
  /\ result' = NoneVal /\ it' = 0 /\ i' = NoneVal
  /\ pc' = "sm16"
  /\ UNCHANGED <<calls_left, cross_entropy_answer, printed, Y, P, saved>>

\* Line 16: print(ans).
print_softmax ==
  /\ pc = "sm16"
  /\ printed' = heap[ans.v].items
  /\ pc' = "main"
  /\ UNCHANGED <<calls_left, heap, cross_entropy_answer, ans, Y, P,
                 L, expl, sumExpl, result, it, i, saved, log>>

\* --------------------------------------------------------------- the system

Next ==
  \/ call_cross_entropy
  \/ ce_line4
  \/ ce_line5
  \/ ce_line6
  \/ print_cross_entropy
  \/ call_softmax
  \/ sm_line8
  \/ sm_line9
  \/ sm_line10
  \/ sm_line11
  \/ sm_line13
  \/ print_softmax

Spec == Init /\ [][Next]_vars

SpecSession == InitSession /\ [][Next]_vars

\* ------------------------------------------------------------- the claims

\* The calls of each function that have ended.
CrossEntropyCalls == {log[k] : k \in {j \in DOMAIN log : log[j].fn = "cross_entropy"}}

SoftmaxCalls == {log[k] : k \in {j \in DOMAIN log : log[j].fn = "softmax"}}

\* p is a float strictly inside (0,1).
Interior(p) == p.kind = "fin" /\ 0 < p.v /\ p.v < Scale

\* y is 0 or 1, as an int or as a float.
Binary(y) == ToFloat64(y) \in {Fin(0), Fin(Scale)}

\* p is exactly 0 or exactly 1, as an int or as a float.
ZeroOrOne(p) == ToFloat64(p) \in {Fin(0), Fin(Scale)}

AllOf(seq, Test(_)) == \A k \in 1..Len(seq) : Test(seq[k])

\* x >= 0 and x > 0 as float64 comparisons (false of nan).
NonNegative(x) == (x.kind = "fin" /\ x.v >= 0) \/ x = PInf

Positive(x) == (x.kind = "fin" /\ x.v > 0) \/ x = PInf

\* y*ln(p) + (1 - y)*ln(1 - p) of one label and one probability.
Term(y, p) ==
  FAdd(FMul(ToFloat64(y), FLog(ToFloat64(p))),
       FMul(FSub(Fin(Scale), ToFloat64(y)), FLog(FSub(Fin(Scale), ToFloat64(p)))))

RECURSIVE TermSum(_, _, _)
\* The sum of Term(yv[k], pv[k]) over k = 1..n, index by index.
TermSum(yv, pv, n) ==
  IF n = 0 THEN Fin(0) ELSE FAdd(TermSum(yv, pv, n - 1), Term(yv[n], pv[n]))

\* C1: for equal-length Y and P with every P[i] strictly inside (0,1),
\* cross_entropy(Y, P) returns the one scalar -sum_i [Y[i]*ln(P[i]) +
\* (1 - Y[i])*ln(1 - P[i])]: every index once, Y[i] with P[i], negated once.
C1_Formula ==
  \A e \in CrossEntropyCalls :
    (Len(e.in[1]) = Len(e.in[2]) /\ AllOf(e.in[2], Interior))
      => /\ Len(e.out) = 1
         /\ IsFinite(e.out[1])
         /\ e.out[1] = FNeg(TermSum(e.in[1], e.in[2], Len(e.in[1])))

\* A call on two lists of three elements, a soft label among the labels and
\* two different probabilities, has returned.
C1_Witness ==
  \E e \in CrossEntropyCalls :
    /\ Len(e.in[1]) = 3 /\ Len(e.in[2]) = 3
    /\ AllOf(e.in[2], Interior)
    /\ e.in[2][1] # e.in[2][2]
    /\ \E k \in 1..3 : ~Binary(e.in[1][k])
    /\ \E k \in 1..3 : e.in[1][k] = PyInt(1)
    /\ pc = "ce13"

RECURSIVE ExpSum(_, _)
\* exp(lv[n]) + ... + exp(lv[1]).
ExpSum(lv, n) ==
  IF n = 0 THEN Fin(0) ELSE FAdd(FExp(ToFloat64(lv[n])), ExpSum(lv, n - 1))

\* C2: for L of length n >= 1, softmax(L) returns a sequence R of length n
\* with R[i] = exp(L[i]) / S for every i, S the sum of all exp(L[j]): input
\* order kept, one divisor for all.
C2_Formula ==
  \A e \in SoftmaxCalls :
    Len(e.in[1]) >= 1
      => /\ Len(e.out) = Len(e.in[1])
         /\ \A k \in 1..Len(e.in[1]) :
              e.out[k] = FDiv(FExp(ToFloat64(e.in[1][k])),
                              ExpSum(e.in[1], Len(e.in[1])))

\* A call on three logits, not all equal and none out of range, has returned
\* three different finite values.
C2_Witness ==
  \E e \in SoftmaxCalls :
    /\ Len(e.in[1]) = 3
    /\ e.in[1][1].v < e.in[1][2].v /\ e.in[1][3].v < e.in[1][1].v
    /\ AllOf(e.out, IsFinite)
    /\ e.out[3].v < e.out[1].v /\ e.out[1].v < e.out[2].v
    /\ pc = "sm16"

\* C4: for equal-length Y and P with every Y[i] in {0,1} and every P[i]
\* strictly inside (0,1), cross_entropy(Y, P) is non-negative.
C4_Formula ==
  \A e \in CrossEntropyCalls :
    (Len(e.in[1]) = Len(e.in[2]) /\ AllOf(e.in[1], Binary) /\ AllOf(e.in[2], Interior))
      => NonNegative(e.out[1])

\* A call on binary labels and interior probabilities has returned a value
\* above zero.
C4_Witness ==
  \E e \in CrossEntropyCalls :
    /\ Len(e.in[1]) = 2 /\ Len(e.in[2]) = 2
    /\ AllOf(e.in[1], Binary) /\ AllOf(e.in[2], Interior)
    /\ e.in[1][1] # e.in[1][2]
    /\ Positive(e.out[1])

\* ln(p) where the label is 1 and ln(1 - p) where it is 0.
Selected(y, p) ==
  IF ToFloat64(y) = Fin(Scale) THEN FLog(ToFloat64(p))
  ELSE FLog(FSub(Fin(Scale), ToFloat64(p)))

RECURSIVE SelectedSum(_, _, _)
SelectedSum(yv, pv, n) ==
  IF n = 0 THEN Fin(0) ELSE FAdd(SelectedSum(yv, pv, n - 1), Selected(yv[n], pv[n]))

\* C5: with every Y[i] 0 or 1 and every P[i] strictly inside (0,1),
\* cross_entropy(Y, P) is minus the sum of ln(P[i]) where Y[i] = 1 and of
\* ln(1 - P[i]) where Y[i] = 0; on the script's lists [1,0,1,1] and
\* [0.4,0.6,0.1,0.5] that is -[ln 0.4 + ln 0.4 + ln 0.1 + ln 0.5], 4.8283 to
\* the model's four decimals, and it is what the script prints.
C5_Formula ==
  \A e \in CrossEntropyCalls :
    /\ (Len(e.in[1]) = Len(e.in[2]) /\ AllOf(e.in[1], Binary) /\ AllOf(e.in[2], Interior))
         => e.out[1] = FNeg(SelectedSum(e.in[1], e.in[2], Len(e.in[1])))
    /\ e.in = <<listy_literal, listp_literal>>
         => /\ e.out[1] = FNeg(FAdd(FAdd(FAdd(FLog(Fin(4000)), FLog(Fin(4000))),
                                         FLog(Fin(1000))), FLog(Fin(5000))))
            /\ IsFinite(e.out[1]) /\ Abs(e.out[1].v - 48283) <= 2
            /\ (pc = "main" /\ Len(log) = 1) => printed = e.out[1]

\* The script has run on its own lists and printed the answer.
C5_Witness ==
  /\ Len(log) = 1
  /\ log[1].fn = "cross_entropy"
  /\ log[1].in = <<listy_literal, listp_literal>>
  /\ pc = "main"
  /\ printed = log[1].out[1]

\* s is 1.0 to within the rounding of n quotients (half a unit each).
NearOne(s, n) == IsFinite(s) /\ 2 * Abs(s.v - Scale) <= n

\* C3: for every finite L of length >= 1, every element of softmax(L) is
\* strictly positive and the elements sum to 1 within a small tolerance.
C3_Claim ==
  \A e \in SoftmaxCalls :
    Len(e.in[1]) >= 1
      => /\ AllOf(e.out, Positive)
         /\ NearOne(SumTo(e.out, Len(e.out)), Len(e.out))

\* C6: for every n >= 1 and every finite c, softmax of n copies of c returns
\* n elements each equal to 1/n; softmax([0,0,0]) returns [1/3, 1/3, 1/3].
C6_Claim ==
  \A e \in SoftmaxCalls :
    (Len(e.in[1]) >= 1 /\ \A k \in 1..Len(e.in[1]) : e.in[1][k] = e.in[1][1])
      => /\ Len(e.out) = Len(e.in[1])
         /\ \A k \in 1..Len(e.out) :
              /\ IsFinite(e.out[k])
              /\ Abs(e.out[k].v - RoundDiv(Scale, Len(e.in[1]))) <= 1

\* C7: two calls of the same function on identical input sequences, in any
\* order and with any other calls in between, return identical outputs.
C7_Formula ==
  \A j, k \in DOMAIN log :
    (log[j].fn = log[k].fn /\ log[j].in = log[k].in) => log[j].out = log[k].out

\* cross_entropy has been called twice on the same lists, with a call of
\* softmax between the two, and has returned a value above zero.
C7_Witness ==
  /\ Len(log) = 3
  /\ log[1].fn = "cross_entropy" /\ log[2].fn = "softmax" /\ log[3].fn = "cross_entropy"
  /\ log[1].in = log[3].in
  /\ Len(log[1].in[1]) >= 1
  /\ IsFinite(log[1].out[1]) /\ log[1].out[1].v > 0

\* The first n elements of seq.
Prefix(seq, n) == SubSeq(seq, 1, n)

\* seq as numpy broadcasts it to length n: a single element repeated.
Stretch(seq, n) == IF Len(seq) = 1 THEN [k \in 1..n |-> seq[1]] ELSE seq

\* The original statement of C8: with Y and P of different lengths the call
\* either fails on the mismatch or returns the result over the common prefix.
C8_Original ==
  \A e \in CrossEntropyCalls :
    Len(e.in[1]) # Len(e.in[2])
      => \/ e.out[1] = ValueError
         \/ e.out[1] = FNeg(TermSum(Prefix(e.in[1], BroadcastLenZip(Len(e.in[1]), Len(e.in[2]))),
                                    Prefix(e.in[2], BroadcastLenZip(Len(e.in[1]), Len(e.in[2]))),
                                    BroadcastLenZip(Len(e.in[1]), Len(e.in[2]))))

\* C8, amended: with Y and P of different lengths the call fails on the
\* mismatch unless one of the two has exactly one element; then it does not
\* fail, and returns the result over every element of the other sequence,
\* each paired with that one element.
C8_Formula ==
  \A e \in CrossEntropyCalls :
    Len(e.in[1]) # Len(e.in[2])
      => IF Len(e.in[1]) # 1 /\ Len(e.in[2]) # 1
           THEN e.out[1] = ValueError /\ pc = "raised"
           ELSE e.out[1] =
                  FNeg(TermSum(Stretch(e.in[1], Len(e.in[2])),
                               Stretch(e.in[2], Len(e.in[1])),
                               IF Len(e.in[1]) = 1 THEN Len(e.in[2]) ELSE Len(e.in[1])))

\* A call with one label and three probabilities has returned a value, and
\* not the one the common prefix gives.
C8_Witness ==
  \E e \in CrossEntropyCalls :
    /\ Len(e.in[1]) = 1 /\ Len(e.in[2]) = 3
    /\ IsFinite(e.out[1])
    /\ e.out[1] # FNeg(TermSum(e.in[1], e.in[2], 1))
    /\ pc = "ce13"

\* C9: when some P[i] is exactly 0 or exactly 1 (Y and P of lengths numpy
\* pairs up, at least one pair, every Y[i] 0 or 1), cross_entropy(Y, P) raises
\* nothing and returns infinity or not-a-number.
C9_Formula ==
  \A e \in CrossEntropyCalls :
    (/\ BroadcastLen(Len(e.in[1]), Len(e.in[2])) >= 1
     /\ AllOf(e.in[1], Binary)
     /\ \E k \in 1..Len(e.in[2]) : ZeroOrOne(e.in[2][k]))
      => /\ e.out[1] # ValueError
         /\ e.out[1].kind \in {"inf", "nan"}
         /\ pc # "raised"

\* A call whose P holds an exact 1 under a label 1, beside an interior
\* probability, has returned not-a-number and the script goes on to print it.
C9_Witness ==
  \E e \in CrossEntropyCalls :
    /\ Len(e.in[1]) = 2 /\ Len(e.in[2]) = 2
    /\ ToFloat64(e.in[1][1]) = Fin(Scale) /\ ToFloat64(e.in[2][1]) = Fin(Scale)
    /\ Interior(e.in[2][2])
    /\ e.out[1] = NaN
    /\ pc = "ce13"

\* C10: neither function modifies its arguments: from the call on, the
\* caller's lists hold what they held when the call was made, and the list
\* softmax returns is a new object, not L.
C10_Formula ==
  /\ heap[listy] = saved[listy]
  /\ heap[listp] = saved[listp]
  /\ heap[list1] = saved[list1]
  /\ pc = "sm16" => /\ ans.kind = "ref"
                    /\ ans.v \notin {listy, listp, list1}
                    /\ saved[ans.v].type = "free"
                    /\ heap[ans.v].type = "list"

\* Both functions have been called on the scripts' own lists and have
\* returned, softmax last.
C10_Witness ==
  /\ pc = "sm16"
  /\ Len(log) = 2
  /\ log[1].fn = "cross_entropy" /\ IsFinite(log[1].out[1])
  /\ heap[listy].items = listy_literal /\ heap[listp].items = listp_literal
  /\ heap[list1].items = list1_literal
  /\ Len(heap[ans.v].items) = Len(list1_literal)

====
